---- MODULE Spec2Model ----
(***************************************************************************)
(* A model of generate_report.py (generate_report_ru.py is the same        *)
(* program with translated labels): main() loads a JSON file, builds a     *)
(* RobustnessReportGenerator and writes an HTML report whose sections are   *)
(* derived from the list data['experiments'].                              *)
(*                                                                         *)
(* JSON scalars are tagged records: JInt(n) is the integer n, JFloat(u)     *)
(* the float u / 10^6, JStr(s) a string, NaN the nan that pandas puts in   *)
(* a cell whose key is missing.  A Python dict is a record whose DOMAIN is *)
(* the set of its keys, so a missing key is a missing field.               *)
(*                                                                         *)
(* Spec is one run of main() on an input drawn from InputFiles.  SpecEnv   *)
(* varies the environment as well (the clock, a report already at the      *)
(* output path, metrics with further keys) and lets main() run twice.      *)
(***************************************************************************)
EXTENDS Integers, Sequences, FiniteSets, TLC

VARIABLES
    pc,              \* position of main(): the next step to run
    input_file,      \* what args.input_file holds on disk
    out_file,        \* what args.output holds on disk
    data,            \* the parsed JSON (main's `data`, then self.data)
    experiments_df,  \* self.experiments_df
    sections,        \* the sections generated so far (the f-string's fields)
    stdout,          \* what main and generate_html_report printed
    exc,             \* the exception that left main(), "none" if none did
    now,             \* what datetime.now() reads, to the second
    previous         \* what an earlier run of the program left, None if none

vars == <<pc, input_file, out_file, data, experiments_df, sections, stdout, exc,
          now, previous>>

-----------------------------------------------------------------------------
(* Bounds of the model *)

\* the longest experiments list drawn
MaxExps == 3

\* the largest number of attacks other than no_attack that an input of
\* SpecAttacks names
MaxAttacks == 7

-----------------------------------------------------------------------------
(* Values *)

JInt(n) == [t |-> "int", v |-> n]
JFloat(u) == [t |-> "float", v |-> u]
JStr(s) == [t |-> "str", v |-> s]
NaN == [t |-> "nan", v |-> 0]
None == [t |-> "none", v |-> 0]

Micro == 1000 * 1000

IsNum(x) == x.t \in {"int", "float"}
IsNaN(x) == x.t = "nan"

\* the numeric value of a number, in millionths
NumVal(x) == IF x.t = "int" THEN x.v * Micro ELSE x.v

\* int -> float, as pandas does for a numeric column that holds NaN or floats
ToFloat(x) == IF x.t = "int" THEN JFloat(x.v * Micro) ELSE x

HasKey(d, k) == k \in DOMAIN d

\* a dict (a metrics mapping) as opposed to a scalar cell such as NaN
IsDict(m) == ~HasKey(m, "t")

Ok(val) == [ok |-> TRUE, val |-> val]
Raise(e) == [ok |-> FALSE, exc |-> e]

-----------------------------------------------------------------------------
(* Sequence helpers *)

Range(s) == {s[i] : i \in 1..Len(s)}

RECURSIVE SelectIdx(_, _, _)
\* the indices i of 1..n, ascending, with keep[i]
SelectIdx(keep, i, n) ==
    IF i > n THEN <<>>
    ELSE (IF keep[i] THEN <<i>> ELSE <<>>) \o SelectIdx(keep, i + 1, n)

RECURSIVE Unique(_)
\* the distinct elements of s in order of first appearance
\* (pandas Series.unique, and the `if k not in d` idiom)
Unique(s) ==
    IF s = <<>> THEN <<>>
    ELSE LET front == Unique(SubSeq(s, 1, Len(s) - 1))
             last == s[Len(s)]
         IN IF last \in Range(front) THEN front ELSE Append(front, last)

-----------------------------------------------------------------------------
(* Formatting *)

Digits3(n) ==
    IF n < 10 THEN "00" \o ToString(n)
    ELSE IF n < 100 THEN "0" \o ToString(n)
    ELSE ToString(n)

\* variant: f"{x:.5f}": the value rounded to five decimals
Format5f(x) ==
    LET u == NumVal(x)
        q == u \div 10
        r == u % 10
        m == IF r > 5 \/ (r = 5 /\ q % 2 = 1) THEN q + 1 ELSE q
        d == ToString(m % 100000)
    IN ToString(m \div 100000) \o "." \o SubSeq("00000", 1, 5 - Len(d)) \o d

\* f"{x:.3f}" of a number: the value rounded to thousandths, always with
\* three decimals, an int as well (7 -> "7.000").  Values here are >= 0.
\* A value exactly halfway between two thousandths goes to the even one
\* (exact for binary fractions; the drawn metric values hold no such tie).
Format3f(x) ==
    LET u == NumVal(x)
        q == u \div 1000
        r == u % 1000
        m == IF r > 500 \/ (r = 500 /\ q % 2 = 1) THEN q + 1 ELSE q
    IN ToString(m \div 1000) \o "." \o Digits3(m % 1000)

RECURSIVE StripZeros(_)
StripZeros(s) ==
    IF Len(s) > 1 /\ SubSeq(s, Len(s), Len(s)) = "0"
    THEN StripZeros(SubSeq(s, 1, Len(s) - 1))
    ELSE s

Digits6(n) ==
    LET s == ToString(n)
    IN SubSeq("000000", 1, 6 - Len(s)) \o s

\* str(x) as an f-string field {x} renders it: an int in decimal, a float by
\* its shortest repr (values here are >= 0 and, unless 0, >= 0.0001, so no
\* exponent form), nan as "nan", a string as itself
PyStr(x) ==
    CASE x.t = "int" -> ToString(x.v)
      [] x.t = "float" ->
            ToString(x.v \div Micro) \o "." \o StripZeros(Digits6(x.v % Micro))
      [] x.t = "nan" -> "nan"
      [] OTHER -> x.v

-----------------------------------------------------------------------------
(* pandas.DataFrame(list of dicts) *)

\* The frame's columns are the union of the dicts' keys; a row lacking a key
\* holds NaN there.  A column of numbers that holds a NaN or a float is
\* float64, so its ints become floats; a column that holds a string is of
\* dtype object and keeps every value as it is.
DataFrame(records) ==
    LET n == Len(records)
        cols == UNION {DOMAIN records[i] : i \in 1..n}
        numeric(c) ==
            \A i \in 1..n : HasKey(records[i], c) => IsNum(records[i][c])
        floating(c) ==
            /\ numeric(c)
            /\ \E i \in 1..n : \/ ~HasKey(records[i], c)
                               \/ records[i][c].t = "float"
        float64 == {c \in cols \ {"attack", "metrics"} : floating(c)}
        cell(r, c) ==
            IF ~HasKey(r, c) THEN NaN
            ELSE IF c \in float64 THEN ToFloat(r[c])
            ELSE r[c]
    IN [columns |-> cols,
        rows |-> <<>> \o [i \in 1..n |-> [c \in cols |-> cell(records[i], c)]]]

-----------------------------------------------------------------------------
(* The inputs drawn *)

MetricsA == [acc |-> JFloat(900000), asr |-> JFloat(100000), f1 |-> JFloat(333333)]
MetricsB == [acc |-> JFloat(400000), asr |-> JFloat(100000), f1 |-> JInt(1)]
\* a metrics dict that lacks the key f1
MetricsNoF1 == [acc |-> JFloat(900000), asr |-> JFloat(100000)]

\* experiments with every key, an integer eps and complete metrics
WellFormed ==
    [attack : {"no_attack", "pgd"}, eps : {JInt(0), JInt(1)}, metrics : {MetricsA}]
    \cup [attack : {"no_attack"}, eps : {JInt(0)}, metrics : {MetricsB}]
    \cup [attack : {"pgd", "fgsm"}, eps : {JInt(1)}, metrics : {MetricsB}]

\* experiments with every key whose eps is a string
TextEps ==
    [attack : {"pgd"}, eps : {JStr("a"), JStr("b")}, metrics : {MetricsA}]

\* experiments that lack a key
Faulty ==
    { [attack |-> "pgd", metrics |-> MetricsA],
      [attack |-> "pgd", eps |-> JInt(0), metrics |-> MetricsNoF1],
      [attack |-> "pgd", eps |-> JInt(0)],
      [eps |-> JInt(0), metrics |-> MetricsA] }

Experiment == WellFormed \cup TextEps

\* the lists of up to MaxExps experiments that have every key, and those
\* lists with one experiment replaced by one that lacks a key
ExperimentLists ==
    UNION { [1..n -> Experiment]
            \cup { [l EXCEPT ![i] = f] :
                     l \in [1..n -> Experiment], i \in 1..n, f \in Faulty } :
            n \in 0..MaxExps }

\* metrics that also hold a companion key of acc and a metric of the
\* user's own
MetricsExtra ==
    [acc |-> JFloat(900000), asr |-> JFloat(100000), f1 |-> JFloat(333333),
     baseline_acc |-> JFloat(800000), loss |-> JFloat(250000)]

\* experiments whose eps is a float (0.0 or 0.3), one with further metric
\* keys, and one whose metrics lack f1
EnvExperiment ==
    [attack : {"no_attack"}, eps : {JFloat(0), JFloat(300000)}, metrics : {MetricsA}]
    \cup { [attack |-> "pgd", eps |-> JFloat(0), metrics |-> MetricsA],
           [attack |-> "pgd", eps |-> JFloat(300000), metrics |-> MetricsB],
           [attack |-> "pgd", eps |-> JInt(1), metrics |-> MetricsExtra],
           [attack |-> "pgd", eps |-> JInt(0), metrics |-> MetricsNoF1] }

EnvInputFiles ==
    { [kind |-> "json", data |-> [experiments |-> e]] :
        e \in UNION {[1..n -> EnvExperiment] : n \in 0..MaxExps} }

\* what the input path can hold: nothing, text that is not JSON, a JSON
\* object without the key experiments, or one with a list of experiments
InputFiles ==
    { [kind |-> "missing"], [kind |-> "invalid"],
      [kind |-> "json", data |-> [desc |-> "model"]] }
    \cup { [kind |-> "json", data |-> [experiments |-> e]] : e \in ExperimentLists }

-----------------------------------------------------------------------------
(* _generate_model_info_section *)

\* Python's ==, under which 0 == 0.0
PyEq(a, b) == IF IsNum(a) /\ IsNum(b) THEN NumVal(a) = NumVal(b) ELSE a = b

RECURSIVE AttackEps(_, _)
\* the list attacks[attack]: the distinct eps values of the attack's
\* experiments in order of first appearance, 'N/A' for a missing eps
AttackEps(exps, attack) ==
    IF exps = <<>> THEN <<>>
    ELSE LET front == AttackEps(SubSeq(exps, 1, Len(exps) - 1), attack)
             exp == exps[Len(exps)]
             eps == IF HasKey(exp, "eps") THEN exp.eps ELSE JStr("N/A")
         IN IF exp.attack # attack \/ \E j \in 1..Len(front) : PyEq(front[j], eps)
            THEN front
            ELSE Append(front, eps)

ModelInfoSection(d) ==
    LET exps == d.experiments
    IN IF \E i \in 1..Len(exps) : ~HasKey(exps[i], "attack")
       THEN Raise("KeyError")
       ELSE LET names == Unique([i \in 1..Len(exps) |-> exps[i].attack])
            IN Ok([attacks |-> [k \in 1..Len(names) |->
                                  [attack |-> names[k],
                                   eps_values |-> [j \in 1..Len(AttackEps(exps, names[k])) |->
                                                     PyStr(AttackEps(exps, names[k])[j])]]],
                   total |-> Len(exps)])

-----------------------------------------------------------------------------
(* Reading the metrics of rows *)

MetricKeys == <<"acc", "asr", "f1">>

\* m[k] for a metrics cell m: a NaN cell is a float, and subscripting it is
\* a TypeError; a dict without the key is a KeyError
Subscript(m, k) ==
    IF ~IsDict(m) THEN Raise("TypeError")
    ELSE IF ~HasKey(m, k) THEN Raise("KeyError")
    ELSE Ok(m[k])

RECURSIVE FirstError(_)
\* the exception of the first failing result of a sequence, "none" if none
FirstError(rs) ==
    IF rs = <<>> THEN "none"
    ELSE IF ~Head(rs).ok THEN Head(rs).exc
    ELSE FirstError(Tail(rs))

\* the rows (indices) of the frame whose attack is a
RowsOf(df, a) ==
    SelectIdx([i \in 1..Len(df.rows) |-> df.rows[i].attack = a], 1, Len(df.rows))

RECURSIVE SumVals(_)
SumVals(xs) == IF xs = <<>> THEN 0 ELSE NumVal(Head(xs)) + SumVals(Tail(xs))

\* sum(xs) / len(xs), kept as the exact fraction sum / n (sum in millionths)
Mean(xs) == [sum |-> SumVals(xs), n |-> Len(xs)]

\* [m[k] for m in the metrics of rows idx]
MetricList(df, idx, k) ==
    <<>> \o [j \in 1..Len(idx) |-> Subscript(df.rows[idx[j]].metrics, k)]

Values(rs) == [j \in 1..Len(rs) |-> rs[j].val]

-----------------------------------------------------------------------------
(* Ordering *)

\* the characters used, in code point order
CharOrder == "/0123456789ABCDEFGHIJKLMNOPQRSTUVWXYZ_abcdefghijklmnopqrstuvwxyz"

RECURSIVE CharTable(_)
CharTable(i) ==
    IF i = Len(CharOrder) THEN SubSeq(CharOrder, i, i) :> i
    ELSE (SubSeq(CharOrder, i, i) :> i) @@ CharTable(i + 1)

\* each character's place in CharOrder
CharCodes == CharTable(1)

CharCode(c) == CharCodes[c]

RECURSIVE StrLt(_, _)
\* Python's a < b on strings
StrLt(a, b) ==
    IF b = "" THEN FALSE
    ELSE IF a = "" THEN TRUE
    ELSE LET ca == CharCode(SubSeq(a, 1, 1))
             cb == CharCode(SubSeq(b, 1, 1))
         IN IF ca # cb THEN ca < cb
            ELSE StrLt(SubSeq(a, 2, Len(a)), SubSeq(b, 2, Len(b)))

\* items in ascending order of their integer keys, equal keys keeping their
\* order (list.sort; numpy's sort of fewer than 17 elements is an insertion
\* sort, which is stable as well)
StableSort(items, keys) ==
    LET n == Len(items)
        ks == <<>> \o keys
        Pos(i) == 1 + Cardinality({j \in 1..n : \/ ks[j] < ks[i]
                                                \/ (ks[j] = ks[i] /\ j < i)})
        pos == <<>> \o [i \in 1..n |-> Pos(i)]
    IN <<>> \o [k \in 1..n |-> items[CHOOSE i \in 1..n : pos[i] = k]]

\* variant: the strings left in the order given
SortStrings_AsGiven(ss) == ss

\* strings in ascending order
SortStrings(ss) ==
    StableSort(ss, <<>> \o [i \in 1..Len(ss) |->
                      Cardinality({j \in 1..Len(ss) : StrLt(ss[j], ss[i])})])

-----------------------------------------------------------------------------
(* _create_metrics_comparison_plot *)

ClearLabel == "Clear Data"

\* the label shown for an attack
Label(a) == IF a = "no_attack" THEN ClearLabel ELSE a

\* One bar per group of df.groupby('attack'), whose index is sorted; the
\* aggregating lambda reads acc, asr and f1 of every row of a group.
MetricsComparisonPlot(df) ==
    IF ~("attack" \in df.columns) THEN Raise("KeyError")
    ELSE IF ~("metrics" \in df.columns) THEN Raise("KeyError")
    ELSE
    LET index == SortStrings(Unique(<<>> \o [i \in 1..Len(df.rows) |-> df.rows[i].attack]))
        reads(a) == MetricList(df, RowsOf(df, a), "acc")
                    \o MetricList(df, RowsOf(df, a), "asr")
                    \o MetricList(df, RowsOf(df, a), "f1")
        RECURSIVE allReads(_)
        allReads(k) == IF k > Len(index) THEN <<>>
                       ELSE reads(index[k]) \o allReads(k + 1)
        err == FirstError(allReads(1))
        others == SelectIdx([k \in 1..Len(index) |-> index[k] # "no_attack"],
                            1, Len(index))
        order == (IF "no_attack" \in Range(index) THEN <<"no_attack">> ELSE <<>>)
                 \o [k \in 1..Len(others) |-> index[others[k]]]
        bar(a) == [attack |-> Label(a),
                   acc |-> Mean(Values(MetricList(df, RowsOf(df, a), "acc"))),
                   asr |-> Mean(Values(MetricList(df, RowsOf(df, a), "asr"))),
                   f1 |-> Mean(Values(MetricList(df, RowsOf(df, a), "f1")))]
    IN IF err # "none" THEN Raise(err)
       ELSE Ok([k \in 1..Len(order) |-> bar(order[k])])

-----------------------------------------------------------------------------
(* _create_epsilon_lineplot *)

\* the integer sort key of each of a list of values that are all numbers or
\* all strings
SortKeys(vals) ==
    <<>> \o [i \in 1..Len(vals) |->
        IF IsNum(vals[i]) THEN NumVal(vals[i])
        ELSE Cardinality({j \in 1..Len(vals) : StrLt(vals[j].v, vals[i].v)})]

\* DataFrame.sort_values('eps') on the rows idx of a frame: the rows whose
\* eps is not NaN in ascending order, then the NaN rows; comparing a string
\* with a number is a TypeError
SortValues(df, idx) ==
    LET eps(j) == df.rows[idx[j]].eps
        n == Len(idx)
        real == SelectIdx([j \in 1..n |-> ~IsNaN(eps(j))], 1, n)
        nans == SelectIdx([j \in 1..n |-> IsNaN(eps(j))], 1, n)
        vals == [k \in 1..Len(real) |-> eps(real[k])]
        mixed == /\ \E k \in 1..Len(vals) : IsNum(vals[k])
                 /\ \E k \in 1..Len(vals) : ~IsNum(vals[k])
        sorted == StableSort(real, SortKeys(vals)) \o nans
    IN IF mixed THEN Raise("TypeError")
       ELSE Ok([k \in 1..n |-> idx[sorted[k]]])

\* Series.max() of the eps column (skipna): the largest number, nan when
\* every value is NaN, the greatest string of a column of strings; a
\* string beside a number or a NaN is a TypeError
ColumnMax(vals) ==
    LET n == Len(vals)
        hasStr == \E i \in 1..n : vals[i].t = "str"
        real == SelectIdx([i \in 1..n |-> ~IsNaN(vals[i])], 1, n)
        keys == SortKeys([k \in 1..Len(real) |-> vals[real[k]]])
    IN IF hasStr /\ \E i \in 1..n : vals[i].t # "str" THEN Raise("TypeError")
       ELSE IF real = <<>> THEN Ok(NaN)
       ELSE Ok(vals[CHOOSE i \in Range(real) :
                      \A k \in 1..Len(real) :
                          keys[k] <= keys[CHOOSE m \in 1..Len(real) : real[m] = i]])

\* variant: the eps of the other attacks is never looked at
OtherAttacksUseZero_Never(df) == FALSE

\* whether some experiment other than no_attack has eps == 0
OtherAttacksUseZero(df) ==
    \E i \in 1..Len(df.rows) :
        df.rows[i].attack # "no_attack" /\ PyEq(df.rows[i].eps, JInt(0))

\* variant: no_attack_data kept from the first no_attack row
NoAttackData_First(df) ==
    LET idx == RowsOf(df, "no_attack")
    IN IF idx = <<>> THEN None
       ELSE LET m == df.rows[idx[1]].metrics
            IN [acc |-> m.acc, asr |-> m.asr, f1 |-> m.f1]

\* variant: no_attack_data is never filled
NoAttackData_Empty(df) == None

\* no_attack_data after the loop: each no_attack row overwrites it, so it
\* holds the metrics of the last one; None stands for the empty dict
NoAttackData(df) ==
    LET idx == RowsOf(df, "no_attack")
    IN IF idx = <<>> THEN None
       ELSE LET m == df.rows[idx[Len(idx)]].metrics
            IN [acc |-> m.acc, asr |-> m.asr, f1 |-> m.f1]

\* variant: every no_attack experiment with eps == 0 is plotted, whatever
\* the eps of the other attacks
PlotData_AllBaselines(df) ==
    LET n == Len(df.rows)
        keep == [i \in 1..n |->
                    \/ df.rows[i].attack # "no_attack"
                    \/ PyEq(df.rows[i].eps, JInt(0))]
        idx == SelectIdx(keep, 1, n)
        point(r) == [attack |-> Label(r.attack), eps |-> r.eps,
                     acc |-> r.metrics.acc, asr |-> r.metrics.asr,
                     f1 |-> r.metrics.f1]
    IN <<>> \o [k \in 1..Len(idx) |-> point(df.rows[idx[k]])]

\* the list plot_data: a point per experiment of an attack, and a point per
\* no_attack experiment with eps == 0 when another attack uses eps == 0
PlotData(df) ==
    LET n == Len(df.rows)
        zero == OtherAttacksUseZero(df)
        keep == [i \in 1..n |->
                    \/ df.rows[i].attack # "no_attack"
                    \/ (zero /\ PyEq(df.rows[i].eps, JInt(0)))]
        idx == SelectIdx(keep, 1, n)
        point(r) == [attack |-> Label(r.attack), eps |-> r.eps,
                     acc |-> r.metrics.acc, asr |-> r.metrics.asr,
                     f1 |-> r.metrics.f1]
    IN <<>> \o [k \in 1..Len(idx) |-> point(df.rows[idx[k]])]

\* The figure: per attack of df_plot (in order of first appearance) a trace
\* of its points sorted by eps, the same in each of the three subplots; and,
\* unless a Clear Data trace is plotted, a horizontal reference line per
\* metric at no_attack_data[metric] from 0 to the largest eps plotted.
EpsilonLineplot(df) ==
    LET n == Len(df.rows)
        reads == [i \in 1..(3 * n) |->
                     Subscript(df.rows[1 + ((i - 1) \div 3)].metrics,
                               MetricKeys[1 + ((i - 1) % 3)])]
    IN
    IF n > 0 /\ ~({"attack", "eps", "metrics"} \subseteq df.columns)
    THEN Raise("KeyError")
    ELSE IF FirstError(reads) # "none" THEN Raise(FirstError(reads))
    ELSE
    LET no_attack_data == NoAttackData(df)
        df_plot == DataFrame(PlotData(df))
    IN
    IF ~("attack" \in df_plot.columns) THEN Raise("KeyError")
    ELSE
    LET unique_attacks == Unique([i \in 1..Len(df_plot.rows) |-> df_plot.rows[i].attack])
        sorted == <<>> \o [k \in 1..Len(unique_attacks) |->
                              SortValues(df_plot, RowsOf(df_plot, unique_attacks[k]))]
        sortErr == FirstError(sorted)
        trace(k) ==
            LET idx == sorted[k].val
            IN [name |-> unique_attacks[k],
                x |-> [j \in 1..Len(idx) |-> df_plot.rows[idx[j]].eps],
                acc |-> [j \in 1..Len(idx) |-> df_plot.rows[idx[j]].acc],
                asr |-> [j \in 1..Len(idx) |-> df_plot.rows[idx[j]].asr],
                f1 |-> [j \in 1..Len(idx) |-> df_plot.rows[idx[j]].f1]]
        withRef == no_attack_data # None /\ ~(ClearLabel \in Range(unique_attacks))
        max_eps == ColumnMax([i \in 1..Len(df_plot.rows) |-> df_plot.rows[i].eps])
    IN
    IF sortErr # "none" THEN Raise(sortErr)
    ELSE IF withRef /\ ~max_eps.ok THEN Raise(max_eps.exc)
    ELSE Ok([traces |-> [k \in 1..Len(unique_attacks) |-> trace(k)],
             reference |-> IF withRef
                           THEN [ref_value |-> no_attack_data,
                                 x |-> <<JInt(0), max_eps.val>>]
                           ELSE None])

-----------------------------------------------------------------------------
(* _create_radar_chart *)

RadarPalette == <<"#FF6B6B", "#4ECDC4", "#45B7D1", "#96CEB4", "#FFEAA7", "#DDA0DD">>

\* variant: the colours start over one attack before the palette is used up
RadarChart_WrapsEarly(df) ==
    LET n == Len(df.rows)
        reads == [i \in 1..(3 * n) |->
                     Subscript(df.rows[1 + ((i - 1) \div 3)].metrics,
                               MetricKeys[1 + ((i - 1) % 3)])]
    IN
    IF n > 0 /\ ~({"attack", "metrics"} \subseteq df.columns) THEN Raise("KeyError")
    ELSE IF FirstError(reads) # "none" THEN Raise(FirstError(reads))
    ELSE
    LET names == Unique([i \in 1..n |-> df.rows[i].attack])
        others == SelectIdx([k \in 1..Len(names) |-> names[k] # "no_attack"],
                            1, Len(names))
        mean(a, key) == Mean(Values(MetricList(df, RowsOf(df, a), key)))
        r(a) == <<mean(a, "acc"),
                  [sum |-> mean(a, "asr").n * Micro - mean(a, "asr").sum,
                   n |-> mean(a, "asr").n],
                  mean(a, "f1")>>
        clear == IF "no_attack" \in Range(names)
                 THEN <<[name |-> ClearLabel, r |-> r("no_attack"), color |-> "#2ECC71"]>>
                 ELSE <<>>
    IN Ok(clear \o [k \in 1..Len(others) |->
                      [name |-> names[others[k]],
                       r |-> r(names[others[k]]),
                       color |-> RadarPalette[1 + ((k - 1) % (Len(RadarPalette) - 1))]]])

\* One trace per attack: Clear Data first, then the others in order of first
\* appearance, coloured in turn from the palette; r is [mean acc,
\* 1 - mean asr, mean f1] (1 - sum/n kept as the fraction (n*10^6 - sum)/n).
RadarChart(df) ==
    LET n == Len(df.rows)
        reads == [i \in 1..(3 * n) |->
                     Subscript(df.rows[1 + ((i - 1) \div 3)].metrics,
                               MetricKeys[1 + ((i - 1) % 3)])]
    IN
    IF n > 0 /\ ~({"attack", "metrics"} \subseteq df.columns) THEN Raise("KeyError")
    ELSE IF FirstError(reads) # "none" THEN Raise(FirstError(reads))
    ELSE
    LET names == Unique([i \in 1..n |-> df.rows[i].attack])
        others == SelectIdx([k \in 1..Len(names) |-> names[k] # "no_attack"],
                            1, Len(names))
        mean(a, key) == Mean(Values(MetricList(df, RowsOf(df, a), key)))
        r(a) == <<mean(a, "acc"),
                  [sum |-> mean(a, "asr").n * Micro - mean(a, "asr").sum,
                   n |-> mean(a, "asr").n],
                  mean(a, "f1")>>
        clear == IF "no_attack" \in Range(names)
                 THEN <<[name |-> ClearLabel, r |-> r("no_attack"), color |-> "#2ECC71"]>>
                 ELSE <<>>
    IN Ok(clear \o [k \in 1..Len(others) |->
                      [name |-> names[others[k]],
                       r |-> r(names[others[k]]),
                       color |-> RadarPalette[1 + ((k - 1) % Len(RadarPalette))]]])

-----------------------------------------------------------------------------
(* The results tables *)

\* the exception, if any, of reading attack, eps and the three metrics of
\* every row of the frame in turn
RowReadError(df) ==
    LET n == Len(df.rows)
        reads == [i \in 1..(3 * n) |->
                     Subscript(df.rows[1 + ((i - 1) \div 3)].metrics,
                               MetricKeys[1 + ((i - 1) % 3)])]
    IN IF n > 0 /\ ~({"attack", "eps", "metrics"} \subseteq df.columns)
       THEN "KeyError"
       ELSE FirstError(reads)

RowClass(a) == IF a = "no_attack" THEN "clear-data-row" ELSE ""

\* the columns of the complete table, by the key each shows (its <th> cells
\* read Attack, Epsilon, Accuracy, Attack Success Rate, F1 Score)
CompleteColumns == <<"attack", "eps", "acc", "asr", "f1">>

\* the columns of the table of one metric
MetricTableColumns(key) == <<"attack", "eps", key>>

\* the columns of the table of one attack
AttackTableColumns == <<"eps", "acc", "asr", "f1">>

\* variant: a row that shows baseline_acc, when the metrics hold it, in a
\* cell next to acc
CompleteRow_WithCompanion(r) ==
    [class |-> RowClass(r.attack),
     cells |-> <<Label(r.attack), PyStr(r.eps), Format3f(r.metrics.acc)>>
               \o (IF HasKey(r.metrics, "baseline_acc")
                   THEN <<Format3f(r.metrics.baseline_acc)>> ELSE <<>>)
               \o <<Format3f(r.metrics.asr), Format3f(r.metrics.f1)>>]

\* a <tr> of the complete table: attack, eps and the three metrics
CompleteRow(r) ==
    [class |-> RowClass(r.attack),
     cells |-> <<Label(r.attack), PyStr(r.eps), Format3f(r.metrics.acc),
                 Format3f(r.metrics.asr), Format3f(r.metrics.f1)>>]

\* variant: every no_attack row shows the reference values of the line plot
CompleteResultsTable_Reference(df) ==
    LET n == Len(df.rows)
        clear == RowsOf(df, "no_attack")
        attack == SelectIdx([i \in 1..n |-> df.rows[i].attack # "no_attack"], 1, n)
        order == clear \o attack
        shown(r) == IF r.attack = "no_attack"
                    THEN [r EXCEPT !.metrics = NoAttackData(df)]
                    ELSE r
    IN IF RowReadError(df) # "none" THEN Raise(RowReadError(df))
       ELSE Ok([k \in 1..n |-> CompleteRow(shown(df.rows[order[k]]))])

\* variant: the rows of the complete table in input order
CompleteResultsTable_InputOrder(df) ==
    IF RowReadError(df) # "none" THEN Raise(RowReadError(df))
    ELSE Ok([k \in 1..Len(df.rows) |-> CompleteRow(df.rows[k])])

\* _create_complete_results_table: a row per experiment, the no_attack rows
\* first, each group in input order
CompleteResultsTable(df) ==
    LET n == Len(df.rows)
        clear == RowsOf(df, "no_attack")
        attack == SelectIdx([i \in 1..n |-> df.rows[i].attack # "no_attack"], 1, n)
        order == clear \o attack
    IN IF RowReadError(df) # "none" THEN Raise(RowReadError(df))
       ELSE Ok([k \in 1..n |-> CompleteRow(df.rows[order[k]])])

\* a <tr> of a table grouped by metric
MetricRow(r, key) ==
    [class |-> RowClass(r.attack),
     cells |-> <<Label(r.attack), PyStr(r.eps), Format3f(r.metrics[key])>>]

\* variant: the other rows sorted ascending and then reversed, so that rows
\* of equal value come out in reverse input order
MetricTable_Reversed(df, key) ==
    LET n == Len(df.rows)
        clear == RowsOf(df, "no_attack")
        attack == SelectIdx([i \in 1..n |-> df.rows[i].attack # "no_attack"], 1, n)
        sorted == StableSort(attack, [k \in 1..Len(attack) |->
                                         NumVal(df.rows[attack[k]].metrics[key])])
        order == clear \o [k \in 1..Len(sorted) |-> sorted[Len(sorted) + 1 - k]]
    IN [k \in 1..n |-> MetricRow(df.rows[order[k]], key)]

\* the table of one metric: the no_attack rows in input order, then the
\* other rows sorted by the metric's value, descending (a stable sort)
MetricTable(df, key) ==
    LET n == Len(df.rows)
        clear == RowsOf(df, "no_attack")
        attack == SelectIdx([i \in 1..n |-> df.rows[i].attack # "no_attack"], 1, n)
        sorted == StableSort(attack, [k \in 1..Len(attack) |->
                                         0 - NumVal(df.rows[attack[k]].metrics[key])])
        order == clear \o sorted
    IN [k \in 1..n |-> MetricRow(df.rows[order[k]], key)]

\* _create_metrics_grouped_table
MetricsGroupedTable(df) ==
    IF RowReadError(df) # "none" THEN Raise(RowReadError(df))
    ELSE Ok([k \in 1..3 |-> [metric |-> MetricKeys[k],
                             rows |-> MetricTable(df, MetricKeys[k])]])

LowerCase == "abcdefghijklmnopqrstuvwxyz"
UpperCase == "ABCDEFGHIJKLMNOPQRSTUVWXYZ"

RECURSIVE Upper(_)
\* str.upper()
Upper(s) ==
    IF s = "" THEN ""
    ELSE LET c == SubSeq(s, 1, 1)
             at == {i \in 1..Len(LowerCase) : SubSeq(LowerCase, i, i) = c}
         IN (IF at = {} THEN c
             ELSE LET i == CHOOSE i \in at : TRUE IN SubSeq(UpperCase, i, i))
            \o Upper(SubSeq(s, 2, Len(s)))

\* variant: a row that shows the metric loss, when the metrics hold it, in
\* a last cell
AttackRow_WithUserMetrics(r) ==
    [class |-> RowClass(r.attack),
     cells |-> <<PyStr(r.eps), Format3f(r.metrics.acc),
                 Format3f(r.metrics.asr), Format3f(r.metrics.f1)>>
               \o (IF HasKey(r.metrics, "loss")
                   THEN <<Format3f(r.metrics.loss)>> ELSE <<>>)]

\* a <tr> of a table grouped by attack
AttackRow(r) ==
    [class |-> RowClass(r.attack),
     cells |-> <<PyStr(r.eps), Format3f(r.metrics.acc),
                 Format3f(r.metrics.asr), Format3f(r.metrics.f1)>>]

\* variant: the rows of an attack's table sorted by eps, largest first
AttackTable_Sorted(df, a) ==
    LET idx == RowsOf(df, a)
        by_eps == StableSort(idx, [k \in 1..Len(idx) |->
                                     IF IsNum(df.rows[idx[k]].eps)
                                     THEN 0 - NumVal(df.rows[idx[k]].eps) ELSE 0])
    IN [title |-> IF a = "no_attack" THEN "CLEAR DATA (Baseline Performance)"
                  ELSE Upper(a),
        rows |-> [k \in 1..Len(idx) |-> AttackRow(df.rows[by_eps[k]])]]

\* the table of one attack: its experiments in input order
AttackTable(df, a) ==
    LET idx == RowsOf(df, a)
    IN [title |-> IF a = "no_attack" THEN "CLEAR DATA (Baseline Performance)"
                  ELSE Upper(a),
        rows |-> [k \in 1..Len(idx) |-> AttackRow(df.rows[idx[k]])]]

\* variant: the tables of the other attacks in ascending order of name
AttackGroupedTable_ByName(df) ==
    IF ~("attack" \in df.columns) THEN Raise("KeyError")
    ELSE IF RowReadError(df) # "none" THEN Raise(RowReadError(df))
    ELSE
    LET unique_attacks == SortStrings(Unique([i \in 1..Len(df.rows) |-> df.rows[i].attack]))
        others == SelectIdx([k \in 1..Len(unique_attacks) |->
                                unique_attacks[k] # "no_attack"],
                            1, Len(unique_attacks))
        order == (IF "no_attack" \in Range(unique_attacks) THEN <<"no_attack">> ELSE <<>>)
                 \o [k \in 1..Len(others) |-> unique_attacks[others[k]]]
    IN Ok([k \in 1..Len(order) |-> AttackTable(df, order[k])])

\* _create_attack_grouped_table: a table per attack, no_attack first, the
\* others in order of first appearance
AttackGroupedTable(df) ==
    IF ~("attack" \in df.columns) THEN Raise("KeyError")
    ELSE IF RowReadError(df) # "none" THEN Raise(RowReadError(df))
    ELSE
    LET unique_attacks == Unique([i \in 1..Len(df.rows) |-> df.rows[i].attack])
        others == SelectIdx([k \in 1..Len(unique_attacks) |->
                                unique_attacks[k] # "no_attack"],
                            1, Len(unique_attacks))
        order == (IF "no_attack" \in Range(unique_attacks) THEN <<"no_attack">> ELSE <<>>)
                 \o [k \in 1..Len(others) |-> unique_attacks[others[k]]]
    IN Ok([k \in 1..Len(order) |-> AttackTable(df, order[k])])

-----------------------------------------------------------------------------
(* The sections of the report *)

\* _generate_visualizations_section: the three figures, made in turn
VisualizationsSection(df) ==
    LET fig1 == MetricsComparisonPlot(df)
        fig2 == EpsilonLineplot(df)
        fig3 == RadarChart(df)
    IN IF ~fig1.ok THEN fig1
       ELSE IF ~fig2.ok THEN fig2
       ELSE IF ~fig3.ok THEN fig3
       ELSE Ok([plot1 |-> fig1.val, plot2 |-> fig2.val, plot3 |-> fig3.val])

\* _generate_results_tables_section: the three tables, made in turn
ResultsTablesSection(df) ==
    LET t1 == CompleteResultsTable(df)
        t2 == MetricsGroupedTable(df)
        t3 == AttackGroupedTable(df)
    IN IF ~t1.ok THEN t1
       ELSE IF ~t2.ok THEN t2
       ELSE IF ~t3.ok THEN t3
       ELSE Ok([complete |-> t1.val, by_metric |-> t2.val, by_attack |-> t3.val])

-----------------------------------------------------------------------------
(* main() and generate_html_report() *)

NoSections ==
    [header |-> None, model_info |-> None, visualizations |-> None,
     results |-> None, footer |-> None]

Absent == [exists |-> FALSE, content |-> None]

\* a report that an earlier, unrelated run left at the output path
OldReport == [exists |-> TRUE, content |-> [text |-> "an earlier report"]]

\* two readings of the clock, as strftime("%Y-%m-%d %H:%M:%S") shows them
Epoch == "2024-01-01 00:00:00"
Clock == {Epoch, "2024-01-01 00:00:01"}

MsgNotFound == "Error: File not found."
MsgInvalidJson == "Error: Invalid JSON"
MsgGenerated == "Report generated successfully"
MsgSuccess == "Report successfully generated!"

Init ==
    /\ pc = "load"
    /\ input_file \in InputFiles
    /\ out_file = Absent
    /\ data = None
    /\ experiments_df = None
    /\ sections = NoSections
    /\ stdout = <<>>
    /\ exc = "none"
    /\ now = Epoch
    /\ previous = None

\* the runs in which the clock reads either second, a report may already
\* be at the output path, and the experiments are drawn from EnvExperiment
InitEnv ==
    /\ pc = "load"
    /\ input_file \in EnvInputFiles
    /\ out_file \in {Absent, OldReport}
    /\ data = None
    /\ experiments_df = None
    /\ sections = NoSections
    /\ stdout = <<>>
    /\ exc = "none"
    /\ now \in Clock
    /\ previous = None

\* variant: the handlers print and fall through instead of returning
LoadInput_FallThrough ==
    /\ pc = "load"
    /\ CASE input_file.kind = "missing" ->
                /\ stdout' = Append(stdout, MsgNotFound)
                /\ data' = [experiments |-> <<>>]
         [] input_file.kind = "invalid" ->
                /\ stdout' = Append(stdout, MsgInvalidJson)
                /\ data' = [experiments |-> <<>>]
         [] OTHER ->
                /\ data' = input_file.data
                /\ stdout' = stdout
    /\ pc' = "construct"
    /\ UNCHANGED <<input_file, out_file, experiments_df, sections, exc, now, previous>>

\* main: open the input and json.load it; FileNotFoundError and
\* JSONDecodeError are caught, reported and main returns
LoadInput ==
    /\ pc = "load"
    /\ CASE input_file.kind = "missing" ->
                /\ stdout' = Append(stdout, MsgNotFound)
                /\ pc' = "done"
                /\ data' = data
         [] input_file.kind = "invalid" ->
                /\ stdout' = Append(stdout, MsgInvalidJson)
                /\ pc' = "done"
                /\ data' = data
         [] OTHER ->
                /\ data' = input_file.data
                /\ pc' = "construct"
                /\ stdout' = stdout
    /\ UNCHANGED <<input_file, out_file, experiments_df, sections, exc, now, previous>>

\* RobustnessReportGenerator.__init__: json_data['experiments'] is a
\* KeyError when the key is missing, and nothing catches it
Construct ==
    /\ pc = "construct"
    /\ IF HasKey(data, "experiments")
       THEN /\ experiments_df' = DataFrame(data.experiments)
            /\ pc' = "header"
            /\ exc' = exc
       ELSE /\ exc' = "KeyError"
            /\ pc' = "done"
            /\ experiments_df' = experiments_df
    /\ UNCHANGED <<input_file, out_file, data, sections, stdout, now, previous>>

\* variant: the exception of a failing section is caught and main returns
Section_Swallow(name, r, next) ==
    /\ sections' = IF r.ok THEN [sections EXCEPT ![name] = r.val] ELSE sections
    /\ pc' = IF r.ok THEN next ELSE "done"
    /\ exc' = exc
    /\ UNCHANGED <<input_file, out_file, data, experiments_df, stdout, now, previous>>

\* variant: generating a section leaves the frame's rows in reverse order
Section_Reorders(name, r, next) ==
    /\ IF r.ok
       THEN /\ sections' = [sections EXCEPT ![name] = r.val]
            /\ pc' = next
            /\ exc' = exc
       ELSE /\ exc' = r.exc
            /\ pc' = "done"
            /\ sections' = sections
    /\ experiments_df' =
          [experiments_df EXCEPT !.rows =
              [i \in 1..Len(@) |-> @[Len(@) + 1 - i]]]
    /\ UNCHANGED <<input_file, out_file, data, stdout, now, previous>>

\* a section of the f-string: its value is kept, or its exception leaves
\* generate_html_report and main
Section(name, r, next) ==
    /\ IF r.ok
       THEN /\ sections' = [sections EXCEPT ![name] = r.val]
            /\ pc' = next
            /\ exc' = exc
       ELSE /\ exc' = r.exc
            /\ pc' = "done"
            /\ sections' = sections
    /\ UNCHANGED <<input_file, out_file, data, experiments_df, stdout, now, previous>>

\* variant: the output file is opened for writing before the header is made
GenerateHeader_OpensFile ==
    /\ pc = "header"
    /\ sections' = [sections EXCEPT !.header = [generated |-> now]]
    /\ pc' = "model_info"
    /\ out_file' = [exists |-> TRUE, content |-> NoSections]
    /\ UNCHANGED <<input_file, data, experiments_df, stdout, exc, now, previous>>

\* _get_css_styles and _generate_header: constant text and the time read
\* from the clock
GenerateHeader ==
    /\ pc = "header"
    /\ Section("header", Ok([generated |-> now]), "model_info")

GenerateModelInfo ==
    /\ pc = "model_info"
    /\ Section("model_info", ModelInfoSection(data), "visualizations")

GenerateVisualizations ==
    /\ pc = "visualizations"
    /\ Section("visualizations", VisualizationsSection(experiments_df), "results")

\* variant: the complete table is left empty unless the clock reads Epoch
GenerateResultsTables_Clocked ==
    /\ pc = "results"
    /\ LET r == ResultsTablesSection(experiments_df)
       IN Section("results",
                  IF r.ok /\ now # Epoch
                  THEN Ok([r.val EXCEPT !.complete = <<>>]) ELSE r,
                  "footer")

GenerateResultsTables ==
    /\ pc = "results"
    /\ Section("results", ResultsTablesSection(experiments_df), "footer")

GenerateFooter ==
    /\ pc = "footer"
    /\ Section("footer", Ok([text |-> "footer"]), "write")

\* generate_html_report: with the whole text built, open the output file
\* for writing, write it and report
WriteReport ==
    /\ pc = "write"
    /\ out_file' = [exists |-> TRUE, content |-> sections]
    /\ stdout' = Append(stdout, MsgGenerated)
    /\ pc' = "success"
    /\ UNCHANGED <<input_file, data, experiments_df, sections, exc, now, previous>>

\* main: the closing messages
PrintSuccess ==
    /\ pc = "success"
    /\ stdout' = Append(stdout, MsgSuccess)
    /\ pc' = "done"
    /\ UNCHANGED <<input_file, out_file, data, experiments_df, sections, exc, now, previous>>

Next ==
    \/ LoadInput
    \/ Construct
    \/ GenerateHeader
    \/ GenerateModelInfo
    \/ GenerateVisualizations
    \/ GenerateResultsTables
    \/ GenerateFooter
    \/ WriteReport
    \/ PrintSuccess

Spec == Init /\ [][Next]_vars

\* main is run a second time on the same input file, in the same second or
\* another, with whatever the first run left at the output path
Rerun ==
    /\ pc = "done"
    /\ previous = None
    /\ previous' = [sections |-> sections, out_file |-> out_file,
                    stdout |-> stdout, exc |-> exc]
    /\ now' \in Clock
    /\ pc' = "load"
    /\ data' = None
    /\ experiments_df' = None
    /\ sections' = NoSections
    /\ stdout' = <<>>
    /\ exc' = "none"
    /\ UNCHANGED <<input_file, out_file>>

NextEnv ==
    \/ Next
    \/ Rerun

SpecEnv == InitEnv /\ [][NextEnv]_vars

\* the names of attacks an input may hold, in an order that is not the
\* ascending one
AttackNames ==
    <<"pgd", "fgsm", "bim", "cw", "deepfool", "apgd", "mifgsm", "jsma", "square">>

\* an experiment of each of the first n attack names, in that order
ManyAttacks(n) ==
    [i \in 1..n |-> [attack |-> AttackNames[i], eps |-> JInt(1), metrics |-> MetricsB]]

\* the list s with e put after its first p elements
InsertAt(s, p, e) == SubSeq(s, 1, p) \o <<e>> \o SubSeq(s, p + 1, Len(s))

\* lists that name up to MaxAttacks attacks once each, and the same lists
\* with a no_attack experiment or a second pgd experiment put in somewhere
ManyAttackLists ==
    LET N == IF MaxAttacks < Len(AttackNames) THEN MaxAttacks ELSE Len(AttackNames)
        extra == { [attack |-> "no_attack", eps |-> JInt(0), metrics |-> MetricsA],
                   [attack |-> "pgd", eps |-> JInt(0), metrics |-> MetricsA] }
    IN { ManyAttacks(n) : n \in 0..N }
       \cup UNION { { InsertAt(ManyAttacks(n), p, e) : p \in 0..n, e \in extra } :
                    n \in 0..N }

ManyAttackInputFiles ==
    { [kind |-> "missing"], [kind |-> "invalid"] }
    \cup { [kind |-> "json", data |-> [experiments |-> e]] : e \in ManyAttackLists }

\* the runs on inputs that name many attacks
InitAttacks ==
    /\ pc = "load"
    /\ input_file \in ManyAttackInputFiles
    /\ out_file = Absent
    /\ data = None
    /\ experiments_df = None
    /\ sections = NoSections
    /\ stdout = <<>>
    /\ exc = "none"
    /\ now = Epoch
    /\ previous = None

SpecAttacks == InitAttacks /\ [][Next]_vars

-----------------------------------------------------------------------------
(* What the claims speak of *)

\* the experiments of the input, when it is JSON with the key experiments
InputExperiments ==
    IF input_file.kind = "json" /\ HasKey(input_file.data, "experiments")
    THEN input_file.data.experiments
    ELSE <<>>

\* the places of the no_attack experiments in the input, in input order
BaselineIdx ==
    LET exps == InputExperiments
    IN SelectIdx([i \in 1..Len(exps) |->
                     HasKey(exps[i], "attack") /\ exps[i].attack = "no_attack"],
                 1, Len(exps))

\* the no_attack experiments do not all carry the same value of metric key
BaselineDiffers(key) ==
    \E i, j \in Range(BaselineIdx) :
        /\ HasKey(InputExperiments[i], "metrics")
        /\ HasKey(InputExperiments[j], "metrics")
        /\ HasKey(InputExperiments[i].metrics, key)
        /\ HasKey(InputExperiments[j].metrics, key)
        /\ InputExperiments[i].metrics[key] # InputExperiments[j].metrics[key]

\* the line plot, once the visualizations section is generated
LinePlotMade == sections.visualizations # None

LinePlot == sections.visualizations.plot2

\* the reference line is drawn
ReferenceDrawn == LinePlotMade /\ LinePlot.reference # None

\* what the program printed that is none of its four messages
Warnings ==
    SelectSeq(stdout, LAMBDA m : m \notin {MsgNotFound, MsgInvalidJson,
                                          MsgGenerated, MsgSuccess})

\* C1 as stated: whenever the reference line of the epsilon line plot is
\* drawn, its value for each metric is the value of the FIRST no_attack
\* experiment of the input (the single value when they all agree), and a
\* warning is recorded when the no_attack values of the metric differ.
C1_FirstBaselineUsed ==
    ReferenceDrawn =>
        \A k \in 1..3 :
            LET key == MetricKeys[k]
            IN /\ LinePlot.reference.ref_value[key]
                    = InputExperiments[BaselineIdx[1]].metrics[key]
               /\ BaselineDiffers(key) => Warnings # <<>>

\* C1 (amended): whenever the reference line of the epsilon line plot is
\* drawn, its value for each of acc, asr and f1 is the value of the LAST
\* no_attack experiment of the input (the single value when all no_attack
\* experiments agree), and no warning is recorded, whether they agree or not.
C1_LastBaselineUsed ==
    ReferenceDrawn =>
        /\ \A k \in 1..3 :
             LinePlot.reference.ref_value[MetricKeys[k]]
                = InputExperiments[BaselineIdx[Len(BaselineIdx)]].metrics[MetricKeys[k]]
        /\ Warnings = <<>>

\* a reference line drawn from two no_attack experiments that differ in acc
C1_Witness ==
    /\ ReferenceDrawn
    /\ BaselineDiffers("acc")
    /\ pc = "done"

\* C2: when the input file is missing or is not JSON, main prints the
\* matching error message and returns: the generator is never constructed,
\* no section is generated, no exception leaves main and the output file is
\* neither created nor written.
C2_InputErrorsReported ==
    input_file.kind \in {"missing", "invalid"} =>
        /\ pc \in {"load", "done"}
        /\ experiments_df = None
        /\ sections = NoSections
        /\ out_file = Absent
        /\ exc = "none"
        /\ pc = "done" =>
              stdout = <<IF input_file.kind = "missing"
                         THEN MsgNotFound ELSE MsgInvalidJson>>

\* main has returned on an input that is not JSON
C2_Witness ==
    /\ pc = "done"
    /\ input_file.kind = "invalid"
    /\ stdout = <<MsgInvalidJson>>

\* the input is JSON but lacks the key experiments, or one of its
\* experiments lacks the key attack or the key metrics
LacksRequiredKey ==
    /\ input_file.kind = "json"
    /\ \/ ~HasKey(input_file.data, "experiments")
       \/ \E i \in 1..Len(InputExperiments) :
             \/ ~HasKey(InputExperiments[i], "attack")
             \/ ~HasKey(InputExperiments[i], "metrics")

\* C3 as stated: on JSON input that lacks a required key the run ends with a
\* user-facing error message (printed by main, no exception leaving it) and
\* no report file is written.
C3_MalformedInputReported ==
    (pc = "done" /\ LacksRequiredKey) =>
        /\ exc = "none"
        /\ Len(stdout) = 1
        /\ stdout[1] \notin {MsgGenerated, MsgSuccess}
        /\ out_file = Absent

\* every experiment of the input has the keys attack, eps and metrics, and
\* its metrics have acc, asr and f1
AllKeysPresent ==
    /\ input_file.kind = "json"
    /\ HasKey(input_file.data, "experiments")
    /\ \A i \in 1..Len(InputExperiments) :
          /\ {"attack", "eps", "metrics"} \subseteq DOMAIN InputExperiments[i]
          /\ {"acc", "asr", "f1"} \subseteq DOMAIN InputExperiments[i].metrics

\* the eps values, in input order, of the input's experiments of an attack
InputEpsOf(a) ==
    LET exps == InputExperiments
        idx == SelectIdx([i \in 1..Len(exps) |-> exps[i].attack = a], 1, Len(exps))
    IN [k \in 1..Len(idx) |-> exps[idx[k]].eps]

\* the attack a trace of the line plot stands for
AttackOfTrace(name) == IF name = ClearLabel THEN "no_attack" ELSE name

Ascending(x) ==
    \A j, k \in 1..Len(x) : j < k => NumVal(x[j]) <= NumVal(x[k])

\* C4 as stated: a trace of the line plot whose eps values are all numbers
\* has its x-values in ascending order; and when some eps value of the input
\* is not a number (every key being present), no error is raised and each
\* trace that holds such a value keeps the input order of its points.
C4_AxisOrder ==
    /\ LinePlotMade =>
          \A t \in 1..Len(LinePlot.traces) :
              (\A j \in 1..Len(LinePlot.traces[t].x) : IsNum(LinePlot.traces[t].x[j]))
                  => Ascending(LinePlot.traces[t].x)
    /\ ( /\ pc = "done"
         /\ AllKeysPresent
         /\ \E i \in 1..Len(InputExperiments) : ~IsNum(InputExperiments[i].eps) )
       => /\ exc = "none"
          /\ \A t \in 1..Len(LinePlot.traces) :
                (\E j \in 1..Len(LinePlot.traces[t].x) : ~IsNum(LinePlot.traces[t].x[j]))
                    => LinePlot.traces[t].x
                          = InputEpsOf(AttackOfTrace(LinePlot.traces[t].name))

\* the results tables, once generated
TablesMade == sections.results # None

Tables == sections.results

TitleOf(a) ==
    IF a = "no_attack" THEN "CLEAR DATA (Baseline Performance)" ELSE Upper(a)

\* C5: in the tables grouped by attack, the table of each attack of the
\* input has exactly one row per experiment of that attack, and its rows
\* show those experiments (eps and the three metrics) in input order.
C5_AttackTableRows ==
    TablesMade =>
        \A i \in 1..Len(experiments_df.rows) :
            LET a == experiments_df.rows[i].attack
                idx == RowsOf(experiments_df, a)
            IN \E k \in 1..Len(Tables.by_attack) :
                  /\ Tables.by_attack[k].title = TitleOf(a)
                  /\ Len(Tables.by_attack[k].rows) = Len(idx)
                  /\ \A j \in 1..Len(idx) :
                        Tables.by_attack[k].rows[j].cells
                            = <<PyStr(experiments_df.rows[idx[j]].eps),
                                Format3f(experiments_df.rows[idx[j]].metrics.acc),
                                Format3f(experiments_df.rows[idx[j]].metrics.asr),
                                Format3f(experiments_df.rows[idx[j]].metrics.f1)>>

\* a generated table of an attack with two different rows, the larger eps
\* second
C5_Witness ==
    /\ TablesMade
    /\ \E k \in 1..Len(Tables.by_attack) :
          /\ Len(Tables.by_attack[k].rows) >= 2
          /\ Tables.by_attack[k].rows[1].cells[1] = "0"
          /\ Tables.by_attack[k].rows[2].cells[1] = "1"

\* C6 as stated: an input whose experiments list is empty gives tables with
\* a header and no row, or ends with an empty-data error; no other error is
\* raised.
C6_EmptyExperimentsHandled ==
    ( /\ pc = "done"
      /\ input_file.kind = "json"
      /\ HasKey(input_file.data, "experiments")
      /\ input_file.data.experiments = <<>> )
    => \/ exc = "EmptyDataError"
       \/ /\ exc = "none"
          /\ TablesMade
          /\ Tables.complete = <<>>
          /\ Tables.by_attack = <<>>
          /\ \A k \in 1..Len(Tables.by_metric) : Tables.by_metric[k].rows = <<>>

\* every experiment has attack, a numeric eps and metrics, the first one has
\* all three metrics, and a later one lacks a metric key
LaterRowLacksMetric ==
    /\ input_file.kind = "json"
    /\ HasKey(input_file.data, "experiments")
    /\ InputExperiments # <<>>
    /\ \A i \in 1..Len(InputExperiments) :
          /\ {"attack", "eps", "metrics"} \subseteq DOMAIN InputExperiments[i]
          /\ IsNum(InputExperiments[i].eps)
    /\ {"acc", "asr", "f1"} \subseteq DOMAIN InputExperiments[1].metrics
    /\ \E i \in 2..Len(InputExperiments) :
          ~({"acc", "asr", "f1"} \subseteq DOMAIN InputExperiments[i].metrics)

\* C7 as stated: when a later experiment's metrics lack acc, asr or f1, the
\* report is still generated and written, the missing cell shown empty.
C7_MissingMetricTolerated ==
    (pc = "done" /\ LaterRowLacksMetric) =>
        /\ exc = "none"
        /\ out_file.exists
        /\ TablesMade
        /\ \E k \in 1..Len(Tables.complete) :
              \E c \in 3..5 : Tables.complete[k].cells[c] = ""

\* the metric cells of the three results tables
MetricCells ==
    { Tables.complete[k].cells[c] : k \in 1..Len(Tables.complete), c \in 3..5 }
    \cup UNION { { Tables.by_metric[k].rows[j].cells[3] :
                       j \in 1..Len(Tables.by_metric[k].rows) } :
                 k \in 1..Len(Tables.by_metric) }
    \cup UNION { { Tables.by_attack[k].rows[j].cells[c] :
                       j \in 1..Len(Tables.by_attack[k].rows), c \in 2..4 } :
                 k \in 1..Len(Tables.by_attack) }

\* how many characters a cell shows after its decimal point, 0 without one
DecimalsOf(s) ==
    LET dot == {i \in 1..Len(s) : SubSeq(s, i, i) = "."}
    IN IF dot = {} THEN 0 ELSE Len(s) - (CHOOSE i \in dot : TRUE)

RECURSIVE DigitsValue(_)
\* the number a string of digits denotes
DigitsValue(s) ==
    IF s = "" THEN 0
    ELSE 10 * DigitsValue(SubSeq(s, 1, Len(s) - 1))
         + (CharCode(SubSeq(s, Len(s), Len(s))) - CharCode("0"))

\* the thousandths that a cell with three decimals shows
Thousandths(s) ==
    1000 * DigitsValue(SubSeq(s, 1, Len(s) - 4))
    + DigitsValue(SubSeq(s, Len(s) - 2, Len(s)))

\* P(v, cell) for every metric value v of the frame and the cell that shows
\* it in the table of its attack
AttackCellsSatisfy(P(_, _)) ==
    \A i \in 1..Len(experiments_df.rows) :
        LET a == experiments_df.rows[i].attack
            idx == RowsOf(experiments_df, a)
        IN \E k \in 1..Len(Tables.by_attack) :
              /\ Tables.by_attack[k].title = TitleOf(a)
              /\ Len(Tables.by_attack[k].rows) = Len(idx)
              /\ \A j \in 1..Len(idx) : \A c \in 1..3 :
                    P(experiments_df.rows[idx[j]].metrics[MetricKeys[c]],
                      Tables.by_attack[k].rows[j].cells[c + 1])

\* C8 as stated: a metric cell shows a floating value with exactly five
\* decimals and an integral value as an integer without a decimal part.
C8_FiveDecimals ==
    TablesMade =>
        LET P(v, cell) == /\ v.t = "float" => DecimalsOf(cell) = 5
                          /\ v.t = "int" => cell = ToString(v.v)
        IN AttackCellsSatisfy(P)

\* C8 (amended): every metric cell of the three results tables shows exactly
\* three decimals, for a floating and for an integral value alike, and the
\* number shown is the value rounded to thousandths (0.333333 gives "0.333",
\* 1 gives "1.000").
C8_ThreeDecimals ==
    TablesMade =>
        /\ \A s \in MetricCells : DecimalsOf(s) = 3
        /\ LET P(v, cell) ==
                  /\ DecimalsOf(cell) = 3
                  /\ 1000 * Thousandths(cell) - NumVal(v) \in -500..500
           IN AttackCellsSatisfy(P)

\* tables that show the float 0.333333 and the int 1
C8_Witness ==
    /\ TablesMade
    /\ {"0.333", "1.000"} \subseteq MetricCells
    /\ \E i \in 1..Len(experiments_df.rows) :
          experiments_df.rows[i].metrics = MetricsB

\* the exception that constructing the generator and generating the
\* sections of the report raise for the loaded JSON d, "none" if none
Outcome(d) ==
    IF ~HasKey(d, "experiments") THEN "KeyError"
    ELSE LET df == DataFrame(d.experiments)
             r1 == ModelInfoSection(d)
             r2 == VisualizationsSection(df)
             r3 == ResultsTablesSection(df)
         IN IF ~r1.ok THEN r1.exc
            ELSE IF ~r2.ok THEN r2.exc
            ELSE IF ~r3.ok THEN r3.exc
            ELSE "none"

\* C9: an exception raised while constructing the generator or generating
\* a section (any but the two caught while loading the input) ends main
\* with that exception: nothing more is generated, written or printed, and
\* a run that ends without an exception is one in which none was raised.
C9_ExceptionsPropagate ==
    /\ exc # "none" =>
          /\ pc = "done"
          /\ out_file = Absent
          /\ stdout = <<>>
    /\ (pc = "done" /\ input_file.kind = "json") =>
          exc = Outcome(input_file.data)

\* a run ended by the TypeError of sorting eps values of mixed kinds
C9_Witness ==
    /\ pc = "done"
    /\ exc = "TypeError"
    /\ sections.model_info # None
    /\ sections.visualizations = None

\* every experiment of the input is well-formed (every key, an integer eps,
\* complete metrics)
AllWellFormed ==
    /\ input_file.kind = "json"
    /\ HasKey(input_file.data, "experiments")
    /\ \A i \in 1..Len(InputExperiments) : InputExperiments[i] \in WellFormed

\* C10 as stated: when the no_attack experiments of a well-formed input
\* differ in a metric, the run does not abort: every section is generated
\* and the report file is written.
C10_DifferingBaselinesComplete ==
    ( /\ pc = "done"
      /\ AllWellFormed
      /\ \E key \in Range(MetricKeys) : BaselineDiffers(key) )
    => /\ exc = "none"
       /\ \A name \in DOMAIN sections : sections[name] # None
       /\ out_file = [exists |-> TRUE, content |-> sections]

\* a cell with three decimals shows the value v, rounded to thousandths
Shows(v, cell) ==
    /\ DecimalsOf(cell) = 3
    /\ 1000 * Thousandths(cell) - NumVal(v) \in -500..500

\* C11: when the no_attack experiments differ in a metric, each of the
\* three kinds of results table still has one row per no_attack experiment,
\* in input order, and the row shows that experiment's own metric values
\* (as the tables format them), not the reference value of the line plot;
\* no row of the complete table is dropped.
C11_BaselineRowsKeepOwnValues ==
    (TablesMade /\ \E key \in Range(MetricKeys) : BaselineDiffers(key)) =>
        LET b == BaselineIdx
            own(k, c) == InputExperiments[b[k]].metrics[MetricKeys[c]]
        IN /\ Len(Tables.complete) = Len(InputExperiments)
           /\ Tables.by_attack[1].title = TitleOf("no_attack")
           /\ Len(Tables.by_attack[1].rows) = Len(b)
           /\ \A k \in 1..Len(b) : \A c \in 1..3 :
                 /\ Tables.complete[k].class = "clear-data-row"
                 /\ Shows(own(k, c), Tables.complete[k].cells[c + 2])
                 /\ Shows(own(k, c), Tables.by_metric[c].rows[k].cells[3])
                 /\ Shows(own(k, c), Tables.by_attack[1].rows[k].cells[c + 1])
           /\ \A k \in (Len(b) + 1)..Len(Tables.complete) :
                 Tables.complete[k].class # "clear-data-row"

\* tables whose first two rows are baselines of accuracy 0.9 and 0.4
C11_Witness ==
    /\ TablesMade
    /\ BaselineDiffers("acc")
    /\ {Tables.complete[1].cells[3], Tables.complete[2].cells[3]}
          = {"0.900", "0.400"}

\* the keys that the metrics of some experiment of the input hold
InputMetricKeys ==
    UNION { DOMAIN InputExperiments[i].metrics :
              i \in { j \in 1..Len(InputExperiments) :
                        HasKey(InputExperiments[j], "metrics") } }

\* the columns of every results table generated
AllColumns ==
    Range(CompleteColumns) \cup Range(AttackTableColumns)
    \cup UNION { Range(MetricTableColumns(MetricKeys[k])) : k \in 1..3 }

\* every row of every results table has as many cells as its table has
\* columns
RowsFitColumns ==
    /\ \A k \in 1..Len(Tables.complete) :
          Len(Tables.complete[k].cells) = Len(CompleteColumns)
    /\ \A k \in 1..Len(Tables.by_metric) : \A j \in 1..Len(Tables.by_metric[k].rows) :
          Len(Tables.by_metric[k].rows[j].cells)
              = Len(MetricTableColumns(Tables.by_metric[k].metric))
    /\ \A k \in 1..Len(Tables.by_attack) : \A j \in 1..Len(Tables.by_attack[k].rows) :
          Len(Tables.by_attack[k].rows[j].cells) = Len(AttackTableColumns)

\* every cell of every results table
AllCells ==
    UNION { Range(Tables.complete[k].cells) : k \in 1..Len(Tables.complete) }
    \cup UNION { UNION { Range(Tables.by_metric[k].rows[j].cells) :
                           j \in 1..Len(Tables.by_metric[k].rows) } :
                 k \in 1..Len(Tables.by_metric) }
    \cup UNION { UNION { Range(Tables.by_attack[k].rows[j].cells) :
                           j \in 1..Len(Tables.by_attack[k].rows) } :
                 k \in 1..Len(Tables.by_attack) }

\* C12 as stated: when the metrics hold acc and its companion baseline_acc,
\* the complete table has a column for each, the companion's right after
\* the metric's.
C12_CompanionColumnsAdjacent ==
    (TablesMade /\ {"acc", "baseline_acc"} \subseteq InputMetricKeys) =>
        /\ RowsFitColumns
        /\ \E j \in 1..(Len(CompleteColumns) - 1) :
              /\ CompleteColumns[j] = "acc"
              /\ CompleteColumns[j + 1] = "baseline_acc"

\* C12 (amended): the tables have fixed columns; when the metrics hold acc
\* and its companion baseline_acc, no table has a column for the companion,
\* the column of acc is followed by that of asr, every row has exactly the
\* cells of its table's columns and no cell shows the companion's value.
C12_NoCompanionColumn ==
    (TablesMade /\ {"acc", "baseline_acc"} \subseteq InputMetricKeys) =>
        /\ ~("baseline_acc" \in AllColumns)
        /\ \E j \in 1..(Len(CompleteColumns) - 1) :
              CompleteColumns[j] = "acc" /\ CompleteColumns[j + 1] = "asr"
        /\ RowsFitColumns
        /\ ~(Format3f(MetricsExtra.baseline_acc) \in AllCells)

\* tables generated from metrics that hold acc and baseline_acc
C12_Witness ==
    /\ TablesMade
    /\ "baseline_acc" \in InputMetricKeys
    /\ \E k \in 1..Len(Tables.complete) :
          Tables.complete[k].cells[3] = Format3f(MetricsExtra.acc)

InputIdxOf(a) ==
    SelectIdx([i \in 1..Len(InputExperiments) |-> InputExperiments[i].attack = a],
              1, Len(InputExperiments))

\* the example: pgd measured once at eps 0.0 with acc 0.9 and once at eps
\* 0.3 with acc 0.4, and baselines (no_attack, at eps 0.0 or 0.3) that all
\* have acc 0.9; nothing else
ExampleBlock ==
    /\ AllKeysPresent
    /\ \A i \in 1..Len(InputExperiments) :
          /\ InputExperiments[i].attack \in {"no_attack", "pgd"}
          /\ InputExperiments[i].eps \in {JFloat(0), JFloat(300000)}
          /\ InputExperiments[i].attack = "no_attack"
                => InputExperiments[i].metrics.acc = JFloat(900000)
    /\ InputIdxOf("no_attack") # <<>>
    /\ { <<InputExperiments[i].eps, InputExperiments[i].metrics.acc>> :
            i \in Range(InputIdxOf("pgd")) }
          = { <<JFloat(0), JFloat(900000)>>, <<JFloat(300000), JFloat(400000)>> }
    /\ Len(InputIdxOf("pgd")) = 2

\* the traces of the line plot named name
TracesNamed(name) ==
    { t \in 1..Len(LinePlot.traces) : LinePlot.traces[t].name = name }

\* the pgd series of the example: x = [0.0, 0.3], y = [0.9, 0.4]
ExampleSeries ==
    /\ Cardinality(TracesNamed("pgd")) = 1
    /\ \A t \in TracesNamed("pgd") :
          /\ LinePlot.traces[t].x = <<JFloat(0), JFloat(300000)>>
          /\ LinePlot.traces[t].acc = <<JFloat(900000), JFloat(400000)>>

C15_InputNeverMutated ==
    /\ data # None => data = input_file.data
    /\ experiments_df # None =>
          experiments_df = DataFrame(input_file.data.experiments)
    /\ LinePlotMade =>
          sections.visualizations
              = VisualizationsSection(DataFrame(input_file.data.experiments)).val
    /\ TablesMade =>
          Tables = ResultsTablesSection(DataFrame(input_file.data.experiments)).val
    /\ (previous # None /\ pc \in {"load", "construct"}) =>
          /\ experiments_df = None
          /\ sections = NoSections

\* a second generator that has generated its tables from two experiments or
\* more
C15_Witness ==
    /\ previous # None
    /\ TablesMade
    /\ Len(experiments_df.rows) >= 2
    /\ experiments_df.rows[1] # experiments_df.rows[2]

C17_FileWrittenLast ==
    [][ out_file' # out_file =>
          /\ \A name \in DOMAIN sections : sections[name] # None
          /\ exc = "none"
          /\ out_file' = [exists |-> TRUE, content |-> sections] ]_vars

\* a run that ended with an exception after some sections were generated,
\* an earlier report still at the output path
C17_Witness ==
    /\ pc = "done"
    /\ exc # "none"
    /\ sections.model_info # None
    /\ out_file = OldReport

\* how many points the line plot shows under the series named name
PointsOf(name) ==
    IF TracesNamed(name) = {} THEN 0
    ELSE Len(LinePlot.traces[CHOOSE t \in TracesNamed(name) : TRUE].x)

\* the line plot shows a point at all
SomePointPlotted ==
    \E t \in 1..Len(LinePlot.traces) : Len(LinePlot.traces[t].x) > 0

\* C18: when the input has a no_attack experiment and the line plot shows
\* a point, the plot has either a series Clear Data or the reference line
\* Clear Data Baseline (with a value for each of the three subplots), never
\* both and never neither.
C18_SeriesOrReference ==
    (LinePlotMade /\ BaselineIdx # <<>> /\ SomePointPlotted) =>
        /\ (TracesNamed(ClearLabel) # {}) # (LinePlot.reference # None)
        /\ Cardinality(TracesNamed(ClearLabel)) <= 1
        /\ LinePlot.reference # None =>
              DOMAIN LinePlot.reference.ref_value = Range(MetricKeys)

\* a plot with the series Clear Data and without the reference line, one
\* no_attack experiment of the input not being plotted
C18_Witness ==
    /\ LinePlotMade
    /\ Len(BaselineIdx) >= 2
    /\ PointsOf(ClearLabel) = 1
    /\ LinePlot.reference = None

\* some experiment of the input other than no_attack has eps equal to 0
OtherUsesZero ==
    \E i \in 1..Len(InputExperiments) :
        /\ InputExperiments[i].attack # "no_attack"
        /\ HasKey(InputExperiments[i], "eps")
        /\ IsNum(InputExperiments[i].eps)
        /\ NumVal(InputExperiments[i].eps) = 0

\* the no_attack experiments of the input whose eps equals 0
BaselinesAtZero ==
    { i \in Range(BaselineIdx) :
        /\ HasKey(InputExperiments[i], "eps")
        /\ IsNum(InputExperiments[i].eps)
        /\ NumVal(InputExperiments[i].eps) = 0 }

\* C19: in the line plot every experiment of an attack other than no_attack
\* is one point of the series of its attack, whatever its eps; a no_attack
\* experiment is a point of the series Clear Data if and only if its eps
\* equals 0 and some experiment of another attack has eps equal to 0; and
\* there are no other points.
C19_PlotPoints ==
    LinePlotMade =>
        /\ \A t, u \in 1..Len(LinePlot.traces) :
              LinePlot.traces[t].name = LinePlot.traces[u].name => t = u
        /\ \A t \in 1..Len(LinePlot.traces) :
              \/ LinePlot.traces[t].name = ClearLabel
              \/ InputIdxOf(LinePlot.traces[t].name) # <<>>
        /\ \A i \in 1..Len(InputExperiments) :
              LET e == InputExperiments[i]
              IN e.attack # "no_attack" =>
                    /\ PointsOf(e.attack) = Len(InputIdxOf(e.attack))
                    /\ \A t \in TracesNamed(e.attack) :
                          \E j \in 1..Len(LinePlot.traces[t].x) :
                              /\ LinePlot.traces[t].acc[j] = e.metrics.acc
                              /\ IF HasKey(e, "eps")
                                 THEN PyEq(LinePlot.traces[t].x[j], e.eps)
                                 ELSE IsNaN(LinePlot.traces[t].x[j])
        /\ PointsOf(ClearLabel)
              = IF OtherUsesZero THEN Cardinality(BaselinesAtZero) ELSE 0
        /\ \A t \in TracesNamed(ClearLabel) :
              \A j \in 1..Len(LinePlot.traces[t].x) :
                  \E i \in BaselinesAtZero :
                      /\ PyEq(LinePlot.traces[t].x[j], JInt(0))
                      /\ LinePlot.traces[t].acc[j] = InputExperiments[i].metrics.acc

\* a plot in which one no_attack experiment (eps 0) is plotted and another
\* (eps 1) is not, an attack being measured at eps 0
C19_Witness ==
    /\ LinePlotMade
    /\ OtherUsesZero
    /\ Cardinality(BaselinesAtZero) = 1
    /\ Len(BaselineIdx) = 2
    /\ PointsOf(ClearLabel) = 1

\* C20 as stated: the reference line runs from x = 0 to the largest eps
\* plotted; and when the input holds no_attack experiments only, so that
\* nothing is plotted, the line plot is still made, without an error, with
\* the reference line from x = 0 to x = 10.
C20_ReferenceSpan ==
    /\ ( /\ ReferenceDrawn
         /\ \E t \in 1..Len(LinePlot.traces) : \E j \in 1..Len(LinePlot.traces[t].x) :
               IsNum(LinePlot.traces[t].x[j]) )
       => /\ LinePlot.reference.x[1] = JInt(0)
          /\ \E t \in 1..Len(LinePlot.traces) : \E j \in 1..Len(LinePlot.traces[t].x) :
                LinePlot.traces[t].x[j] = LinePlot.reference.x[2]
          /\ \A t \in 1..Len(LinePlot.traces) :
                \A j \in 1..Len(LinePlot.traces[t].x) :
                    IsNum(LinePlot.traces[t].x[j])
                        => NumVal(LinePlot.traces[t].x[j])
                              <= NumVal(LinePlot.reference.x[2])
    /\ ( /\ pc = "done"
         /\ AllWellFormed
         /\ InputExperiments # <<>>
         /\ \A i \in 1..Len(InputExperiments) :
               InputExperiments[i].attack = "no_attack" )
       => /\ exc = "none"
          /\ LinePlotMade
          /\ LinePlot.traces = <<>>
          /\ LinePlot.reference # None
          /\ LinePlot.reference.x = <<JInt(0), JInt(10)>>

\* every experiment of the input has attack and complete metrics, every eps
\* given is a number, and some experiment has no eps key
SomeEpsMissing ==
    /\ input_file.kind = "json"
    /\ HasKey(input_file.data, "experiments")
    /\ \A i \in 1..Len(InputExperiments) :
          /\ {"attack", "metrics"} \subseteq DOMAIN InputExperiments[i]
          /\ {"acc", "asr", "f1"} \subseteq DOMAIN InputExperiments[i].metrics
          /\ HasKey(InputExperiments[i], "eps") => IsNum(InputExperiments[i].eps)
    /\ \E i \in 1..Len(InputExperiments) : ~HasKey(InputExperiments[i], "eps")

\* C21 as stated: an experiment without the key eps is accepted: the model
\* information lists 'N/A' for its attack and the report is generated and
\* written, also when no experiment of the input has the key eps.
C21_MissingEpsAccepted ==
    (pc = "done" /\ SomeEpsMissing) =>
        /\ exc = "none"
        /\ out_file.exists
        /\ \A i \in 1..Len(InputExperiments) :
              ~HasKey(InputExperiments[i], "eps") =>
                  \E k \in 1..Len(sections.model_info.attacks) :
                      /\ sections.model_info.attacks[k].attack
                            = InputExperiments[i].attack
                      /\ "N/A" \in Range(sections.model_info.attacks[k].eps_values)

\* the places in the input of the experiments of an attack other than
\* no_attack, in input order
OtherIdx ==
    SelectIdx([i \in 1..Len(InputExperiments) |->
                  InputExperiments[i].attack # "no_attack"],
              1, Len(InputExperiments))

\* C22: the complete results table has one row per experiment of the
\* input: first the rows of the no_attack experiments (labelled Clear Data),
\* in input order, then the rows of the other experiments, in input order,
\* each showing its experiment's attack, eps and metrics.
C22_CompleteTableOrder ==
    TablesMade =>
        LET order == BaselineIdx \o OtherIdx
        IN /\ Len(Tables.complete) = Len(InputExperiments)
           /\ Len(order) = Len(InputExperiments)
           /\ \A k \in 1..Len(Tables.complete) :
                 LET e == experiments_df.rows[order[k]]
                 IN /\ Tables.complete[k].cells[1] = Label(e.attack)
                    /\ Tables.complete[k].cells[2] = PyStr(e.eps)
                    /\ \A c \in 1..3 :
                          Shows(e.metrics[MetricKeys[c]],
                                Tables.complete[k].cells[c + 2])
                    /\ (Tables.complete[k].class = "clear-data-row")
                          <=> (k <= Len(BaselineIdx))

\* a complete table whose first row is the input's last experiment
C22_Witness ==
    /\ TablesMade
    /\ Len(InputExperiments) = 3
    /\ BaselineIdx = <<3>>
    /\ InputExperiments[1].attack # InputExperiments[2].attack
    /\ Tables.complete[1].cells[1] = ClearLabel

\* the place, among the rows of the other experiments of the table of
\* metric key, of the experiment at place i of the input: after those of
\* greater value and after those of equal value given earlier
RankIn(key, i) ==
    LET v(j) == NumVal(InputExperiments[j].metrics[key])
    IN 1 + Cardinality({ j \in Range(OtherIdx) :
                           v(j) > v(i) \/ (v(j) = v(i) /\ j < i) })

\* C23: each of the tables of acc, asr and f1 has one row per experiment:
\* first the no_attack rows in input order, then the rows of the other
\* experiments by descending value of the metric, rows of equal value in
\* input order.
C23_MetricTableOrder ==
    TablesMade =>
        /\ Len(Tables.by_metric) = 3
        /\ \A c \in 1..3 :
              LET key == MetricKeys[c]
                  rows == Tables.by_metric[c].rows
                  shown(k, i) ==
                      LET e == experiments_df.rows[i]
                      IN /\ rows[k].cells[1] = Label(e.attack)
                         /\ rows[k].cells[2] = PyStr(e.eps)
                         /\ Shows(e.metrics[key], rows[k].cells[3])
              IN /\ Tables.by_metric[c].metric = key
                 /\ Len(rows) = Len(InputExperiments)
                 /\ \A k \in 1..Len(BaselineIdx) : shown(k, BaselineIdx[k])
                 /\ \A i \in Range(OtherIdx) :
                       shown(Len(BaselineIdx) + RankIn(key, i), i)

\* a table of acc in which an experiment of smaller accuracy, given first,
\* is shown after two of equal accuracy that differ in eps
C23_Witness ==
    /\ TablesMade
    /\ Len(OtherIdx) = 3
    /\ \A i \in 1..3 : HasKey(InputExperiments[i], "eps")
    /\ RankIn("acc", 1) = 3
    /\ RankIn("acc", 2) = 1
    /\ InputExperiments[2].eps # InputExperiments[3].eps
    /\ InputExperiments[2].metrics.acc = InputExperiments[3].metrics.acc

\* the attacks of the input
InputAttacks == { InputExperiments[i].attack : i \in 1..Len(InputExperiments) }

\* the attacks of the input other than no_attack
OtherAttacks == InputAttacks \ {"no_attack"}

\* the place in the input of the first experiment of attack a
FirstPlace(a) ==
    CHOOSE i \in 1..Len(InputExperiments) :
        /\ InputExperiments[i].attack = a
        /\ \A j \in 1..(i - 1) : InputExperiments[j].attack # a

\* the number of Clear Data entries that come before the other attacks'
ClearFirst == IF "no_attack" \in InputAttacks THEN 1 ELSE 0

\* the place of attack a among the attacks: Clear Data first, then the
\* others in order of first appearance in the input
AppearancePlace(a) ==
    IF a = "no_attack" THEN 1
    ELSE 1 + ClearFirst
           + Cardinality({ b \in OtherAttacks : FirstPlace(b) < FirstPlace(a) })

RECURSIVE SumLens(_)
SumLens(ts) == IF ts = <<>> THEN 0 ELSE Len(Head(ts).rows) + SumLens(Tail(ts))

\* C24: the tables grouped by attack are one per distinct attack of the
\* input, the no_attack table first and the others in order of first
\* appearance; the table of an attack has as many rows as the input has
\* experiments of that attack, so the row counts add up to the total of
\* the model information section.
C24_AttackTablesPartition ==
    TablesMade =>
        /\ Len(Tables.by_attack) = Cardinality(InputAttacks)
        /\ \A a \in InputAttacks :
              /\ Tables.by_attack[AppearancePlace(a)].title = TitleOf(a)
              /\ Len(Tables.by_attack[AppearancePlace(a)].rows) = Len(InputIdxOf(a))
              /\ \A j \in 1..Len(InputIdxOf(a)) :
                    Tables.by_attack[AppearancePlace(a)].rows[j].cells[1]
                        = PyStr(experiments_df.rows[InputIdxOf(a)[j]].eps)
        /\ SumLens(Tables.by_attack) = sections.model_info.total
        /\ SumLens(Tables.by_attack) = Len(InputExperiments)

\* three tables, of an input that names pgd before fgsm and no_attack last
C24_Witness ==
    /\ TablesMade
    /\ Len(Tables.by_attack) = 3
    /\ InputExperiments[3].attack = "no_attack"
    /\ Tables.by_attack[1].title = TitleOf("no_attack")
    /\ Tables.by_attack[2].title = "PGD"
    /\ Tables.by_attack[3].title = "FGSM"

PlotsMade == sections.visualizations # None

BarChart == sections.visualizations.plot1

\* the place of attack a among the bars: Clear Data first, then the others
\* in ascending order of name
NamePlace(a) ==
    IF a = "no_attack" THEN 1
    ELSE 1 + ClearFirst + Cardinality({ b \in OtherAttacks : StrLt(b, a) })

RECURSIVE InputSum(_, _)
\* the sum, in millionths, of metric key over the experiments at places idx
InputSum(idx, key) ==
    IF idx = <<>> THEN 0
    ELSE NumVal(InputExperiments[Head(idx)].metrics[key]) + InputSum(Tail(idx), key)

\* C25: the bar chart has one bar per distinct attack of the input in each
\* of its three subplots, Clear Data first when the input has a no_attack
\* experiment and then the other attacks in ascending order of name; the
\* height of a bar is the sum of the metric over the attack's experiments
\* divided by their number.
C25_BarChart ==
    PlotsMade =>
        /\ Len(BarChart) = Cardinality(InputAttacks)
        /\ \A a \in InputAttacks :
              /\ BarChart[NamePlace(a)].attack = Label(a)
              /\ \A c \in 1..3 :
                    BarChart[NamePlace(a)][MetricKeys[c]]
                        = [sum |-> InputSum(InputIdxOf(a), MetricKeys[c]),
                           n |-> Len(InputIdxOf(a))]

\* a bar chart of an input that names pgd, then fgsm, then pgd again with
\* another accuracy: fgsm's bar comes first, and pgd's has the mean height
C25_Witness ==
    /\ PlotsMade
    /\ Len(InputExperiments) = 3
    /\ InputExperiments[1].attack = "pgd"
    /\ InputExperiments[2].attack = "fgsm"
    /\ InputExperiments[3].attack = "pgd"
    /\ BarChart[1].attack = "fgsm"
    /\ BarChart[2].attack = "pgd"
    /\ BarChart[2].acc = [sum |-> 1300000, n |-> 2]

Radar == sections.visualizations.plot3

\* the traces of the radar chart of the attacks other than no_attack
OtherTraces == SubSeq(Radar, 1 + ClearFirst, Len(Radar))

\* C26: the radar chart has one trace per distinct attack of the input,
\* Clear Data first when the input has a no_attack experiment and then the
\* others in order of first appearance; a trace's values are the mean acc,
\* one minus the mean asr and the mean f1 of its attack's experiments; the
\* k-th of the other attacks, counted from 0, has colour k mod 6 of the
\* palette, so that the first six have six different colours and the
\* seventh has the colour of the first.
C26_RadarChart ==
    PlotsMade =>
        /\ Len(Radar) = Cardinality(InputAttacks)
        /\ \A a \in InputAttacks :
              LET t == Radar[AppearancePlace(a)]
                  idx == InputIdxOf(a)
              IN /\ t.name = Label(a)
                 /\ t.r = << [sum |-> InputSum(idx, "acc"), n |-> Len(idx)],
                             [sum |-> Len(idx) * Micro - InputSum(idx, "asr"),
                              n |-> Len(idx)],
                             [sum |-> InputSum(idx, "f1"), n |-> Len(idx)] >>
        /\ \A k \in 0..(Len(OtherTraces) - 1) :
              OtherTraces[k + 1].color = RadarPalette[1 + (k % 6)]
        /\ \A j, k \in 1..Len(OtherTraces) :
              (j < k /\ OtherTraces[j].color = OtherTraces[k].color) => k >= 7
        /\ Len(OtherTraces) >= 7 => OtherTraces[7].color = OtherTraces[1].color

\* a radar chart with Clear Data, given third in the input, and seven other
\* attacks, the seventh in the colour of the first
C26_Witness ==
    /\ PlotsMade
    /\ Len(Radar) = 8
    /\ InputExperiments[3].attack = "no_attack"
    /\ Radar[1].name = ClearLabel
    /\ Radar[2].name = "pgd"
    /\ Radar[8].name = "mifgsm"
    /\ Radar[8].color = Radar[2].color
    /\ Radar[7].color # Radar[2].color

====
